---- MODULE Spec2Model ----
(***************************************************************************)
(* Model of linefeed's Unix terminal backend (src/unix/terminal.rs):       *)
(* the raw-mode guard, the process-wide signal relay LAST_SIGNAL, the      *)
(* readiness wait with its resume handshake, the read retry loop and the   *)
(* cursor movement operations.                                             *)
(*                                                                         *)
(* The main thread is a sequential program whose position is pc; the       *)
(* shared signal handler is an asynchronous context that may run between   *)
(* any two main-thread steps (action signal_handler).                      *)
(***************************************************************************)
EXTENDS Integers, Sequences, FiniteSets, TLC

VARIABLES
    tio,            \* kernel terminal attributes of STDIN_FILENO
    disp,           \* kernel signal dispositions of the four job-control signals
    LAST_SIGNAL,    \* static LAST_SIGNAL: AtomicUsize
    resume,         \* UnixTerminal.resume : Cell<Option<(bool, SignalSet)>>
    guard,          \* the TerminalGuard owned by the caller
    faults,         \* syscall failures injected so far (tcgetattr, tcsetattr, sigaction)
    pc,             \* position of the main thread
    loc,            \* locals of the running call (parameters, guard under construction;
                    \* got: a signal reached the handler since wait_for_input was entered;
                    \* entry: the kernel state and ResumeState a prepare() started from;
                    \* failed, released: the call of prepare() that failed, and what
                    \* the drop of its guard returned;
                    \* timeval: the timeout select is given, in ticks;
                    \* left: what is left of the caller's timeout)
    intr,           \* a handler ran while the main thread was blocked in a syscall
    ret,            \* result of the most recent completed call, forgotten when a
                    \* signal is delivered after it
    prev,           \* the call before it, when it was a relay read with nothing in between
    quiet,          \* no signal was delivered during wait_for_input since that call
                    \* last read the relay
    lastDelivered,  \* raw number of the newest signal the relay can hold: the one most
                    \* recently given to signal_handler during the running call, or
                    \* else the one the relay held when the call was entered (0: none)
    pre,            \* kernel state at the entry of the call that made the caller's
                    \* guard (set: that call was prepare()), and the outcomes of the
                    \* resume handshakes run under a guard of prepare()
    out,            \* chunks written to the terminal by the cursor operations
    last,           \* the most recent cursor operation and what it did
    prepared,       \* the arguments of the caller's most recent successful prepare()
    tv              \* the most recent to_timeval conversion: its argument and result

vars == <<tio, disp, LAST_SIGNAL, resume, guard, faults, pc, loc, intr, ret,
          prev, quiet, lastDelivered, pre, out, last, prepared, tv>>

termVars == <<tio, disp, LAST_SIGNAL, resume, guard, faults, pc, loc, intr, ret,
              prev, quiet, lastDelivered, pre, prepared>>

cursorVars == <<out, last>>

\* the variables of the operations that touch neither the terminal nor the relay
pureVars == <<out, last, tv>>

-----------------------------------------------------------------------------
(* Bounds of the model *)

MaxFaults == 1
MaxRead == 1
MaxOut == 2
MaxN == 2
MaxTimeout == 1

-----------------------------------------------------------------------------
(* Signals and the relay *)

SIGINT == 2
SIGQUIT == 3
SIGCONT == 18
SIGTSTP == 20

Sigs == {SIGCONT, SIGINT, SIGTSTP, SIGQUIT}

\* !0 : the all-ones usize, written as its two's complement reading
Sentinel == -1

\* ATOMIC_USIZE_INIT
ATOMIC_USIZE_INIT == 0

Kinds == {"Continue", "Interrupt", "Suspend", "Quit"}

conv_signal_drops_quit(n) ==
    IF n = Sentinel THEN "None"
    ELSE CASE n = SIGCONT -> "Continue"
           [] n = SIGINT  -> "Interrupt"
           [] n = SIGTSTP -> "Suspend"
           [] OTHER       -> "None"

conv_signal(n) ==
    IF n = Sentinel THEN "None"
    ELSE CASE n = SIGCONT -> "Continue"
           [] n = SIGINT  -> "Interrupt"
           [] n = SIGTSTP -> "Suspend"
           [] n = SIGQUIT -> "Quit"
           [] OTHER       -> "None"

get_raw_signal == LAST_SIGNAL

\* the signal the relay holds (0: none)
Recorded == IF LAST_SIGNAL \in Sigs THEN LAST_SIGNAL ELSE 0

get_last_signal == conv_signal(get_raw_signal)

-----------------------------------------------------------------------------
(* Terminal attributes *)

\* attributes in which every field prepare() or read_signals() changes differs
\* from what they write
Cooked == [INLCR |-> TRUE, ICRNL |-> TRUE, ICANON |-> TRUE, ECHO |-> TRUE,
           ISIG |-> TRUE, IXON |-> TRUE, VMIN |-> 1, VTIME |-> 1]

InitTios == {Cooked}

InitDisps == {[s \in Sigs |-> IF s = SIGQUIT THEN "SIG_IGN" ELSE "SIG_DFL"]}

\* the report_signals arguments tried: each decides one of the two optional handlers
Reports == {{"Suspend"}, {"Quit"}}

\* prepare(): the attributes it writes with tcsetattr
prepare_tio(old_tio) ==
    [old_tio EXCEPT !.INLCR = FALSE, !.ICRNL = FALSE,
                    !.ICANON = FALSE, !.ECHO = FALSE,
                    !.VMIN = 0, !.VTIME = 0]

read_signals_tio_clears_echo(old_tio) ==
    [old_tio EXCEPT !.IXON = FALSE, !.ISIG = FALSE, !.ECHO = FALSE]

\* read_signals(): the attributes it writes with tcsetattr
read_signals_tio(old_tio) ==
    [old_tio EXCEPT !.IXON = FALSE, !.ISIG = FALSE]

-----------------------------------------------------------------------------
(* TerminalGuard *)

NoSaved == [s \in Sigs |-> "None"]

NoGuard == [live |-> FALSE, old_tio |-> Cooked, old |-> NoSaved]

TerminalGuard_new(old_tio) == [live |-> TRUE, old_tio |-> old_tio, old |-> NoSaved]

RestoreOrder == <<SIGCONT, SIGINT, SIGTSTP, SIGQUIT>>

\* what the environment makes fail during one restore()
NoFails == [tio |-> FALSE, sig |-> {}]

\* restore() returns at its first failing call, so one failing call per restore()
\* is every case: tcsetattr, or the sigaction of one saved disposition
RestoreFails(g, budget) ==
    {NoFails} \cup
    (IF budget < 1 THEN {}
     ELSE {[tio |-> TRUE, sig |-> {}]} \cup
          {[tio |-> FALSE, sig |-> {s}] : s \in {x \in Sigs : g.old[x] # "None"}})

NFails(f) == Cardinality(f.sig) + (IF f.tio THEN 1 ELSE 0)

RECURSIVE restore_sigs(_, _, _, _, _)
restore_sigs(g, fails, d, i, att) ==
    IF i > Len(RestoreOrder) THEN [disp |-> d, ok |-> TRUE, attempted |-> att]
    ELSE LET s == RestoreOrder[i] IN
         IF g.old[s] = "None" THEN restore_sigs(g, fails, d, i + 1, att)
         ELSE IF s \in fails.sig
              THEN [disp |-> d, ok |-> FALSE, attempted |-> att \cup {s}]
              ELSE restore_sigs(g, fails, [d EXCEPT ![s] = g.old[s]], i + 1,
                                att \cup {s})

restore_skips_sigquit(g, fails, t, d) ==
    IF fails.tio
    THEN [tio |-> t, disp |-> d, ok |-> FALSE, attempted |-> {}]
    ELSE LET r == restore_sigs([g EXCEPT !.old[SIGQUIT] = "None"], fails, d, 1, {})
         IN [tio |-> g.old_tio, disp |-> r.disp, ok |-> r.ok,
             attempted |-> r.attempted]

\* TerminalGuard::restore on kernel state (t, d): every `?` returns at once
restore(g, fails, t, d) ==
    IF fails.tio
    THEN [tio |-> t, disp |-> d, ok |-> FALSE, attempted |-> {}]
    ELSE LET r == restore_sigs(g, fails, d, 1, {})
         IN [tio |-> g.old_tio, disp |-> r.disp, ok |-> r.ok,
             attempted |-> r.attempted]

-----------------------------------------------------------------------------
(* Locals and results *)

NoResume == [some |-> FALSE, catch |-> FALSE, report |-> {}]

\* what a prepare() finds when it is entered
Entry(t, d, r, slot) == [tio |-> t, disp |-> d, resume |-> r, slot |-> slot]

NoEntry == Entry(Cooked, [s \in Sigs |-> "SIG_DFL"], NoResume, Sentinel)

NoLoc == [ctx |-> "none", catch |-> FALSE, report |-> {}, g |-> NoGuard,
          sig |-> Sentinel, i |-> 1, timeout |-> "None", seen |-> "None",
          sys |-> "None", got |-> FALSE, entry |-> NoEntry, failed |-> "None",
          released |-> "None", timeval |-> 0, left |-> 0]

Some(c, r) == [some |-> TRUE, catch |-> c, report |-> r]

NoPre == [set |-> FALSE, tio |-> Cooked, disp |-> [s \in Sigs |-> "SIG_DFL"],
          hs |-> {}]

NoRet == [op |-> "none"]

NoPrev == [op |-> "none", val |-> "None"]

NoLast == [op |-> "none"]

TermInit ==
    /\ tio \in InitTios
    /\ disp \in InitDisps
    /\ LAST_SIGNAL = ATOMIC_USIZE_INIT
    /\ resume = NoResume
    /\ guard = NoGuard
    /\ faults = 0
    /\ pc = "idle"
    /\ loc = NoLoc
    /\ intr = FALSE
    /\ ret = NoRet
    /\ prev = NoPrev
    /\ quiet = TRUE
    /\ lastDelivered = 0
    /\ pre = NoPre
    /\ prepared = NoResume

CursorInit ==
    /\ out = <<>>
    /\ last = NoLast

NoTv == [called |-> FALSE]

TimevalInit == tv = NoTv

Init == TermInit /\ CursorInit /\ TimevalInit

-----------------------------------------------------------------------------
(* The asynchronous context *)

set_raw_signal(sig) == LAST_SIGNAL' = sig

\* the main thread is inside (or about to enter) a blocking syscall
Blocked == pc \in {"select", "read"}

\* the main thread is inside wait_for_input (its resume handshake included)
InWait == pc \notin {"idle", "read"} /\ loc.ctx # "caller"

\* extern "C" fn signal_handler(sig): runs whenever the kernel delivers a signal
\* whose disposition is the shared handler. A delivery while the main thread
\* is blocked interrupts the syscall; one just before the syscall is entered
\* does not.
signal_handler ==
    \E s \in Sigs :
        /\ disp[s] = "signal_handler"
        /\ set_raw_signal(s)
        /\ lastDelivered' = s
        /\ quiet' = IF InWait THEN FALSE ELSE quiet
        /\ ret' = NoRet
        /\ prev' = NoPrev
        /\ \E hit \in BOOLEAN : intr' = (intr \/ (Blocked /\ hit))
        /\ loc' = IF InWait THEN [loc EXCEPT !.got = TRUE] ELSE loc
        /\ UNCHANGED <<tio, disp, resume, guard, faults, pc, pre>>
        /\ UNCHANGED prepared
        /\ UNCHANGED pureVars

\* a signal whose handler lives outside this file interrupts a blocking syscall
other_signal ==
    /\ Blocked
    /\ ~intr
    /\ intr' = TRUE
    /\ UNCHANGED <<tio, disp, LAST_SIGNAL, resume, guard, faults, pc, loc, ret, prev,
                   quiet, lastDelivered, pre>>
    /\ UNCHANGED prepared
    /\ UNCHANGED pureVars

-----------------------------------------------------------------------------
(* The relay, read from the main thread *)

\* the snapshot is kept while the caller holds the guard and until the call
\* after its release
KeptPre == IF guard.live THEN pre ELSE NoPre

RelayPrev == IF ret.op \in {"take", "get"} THEN [op |-> ret.op, val |-> ret.val]
             ELSE NoPrev

take_signal_keeps_slot ==
    /\ pc = "idle"
    /\ ret' = [op |-> "take", val |-> conv_signal(LAST_SIGNAL), slot |-> LAST_SIGNAL]
    /\ prev' = RelayPrev
    /\ quiet' = TRUE
    /\ lastDelivered' = 0
    /\ UNCHANGED <<tio, disp, LAST_SIGNAL, resume, guard, faults, pc, loc, intr>>
    /\ pre' = KeptPre
    /\ UNCHANGED prepared
    /\ UNCHANGED pureVars

\* take_signal -> take_last_signal: conv_signal(LAST_SIGNAL.swap(!0))
take_signal ==
    /\ pc = "idle"
    /\ LAST_SIGNAL' = Sentinel
    /\ ret' = [op |-> "take", val |-> conv_signal(LAST_SIGNAL), slot |-> LAST_SIGNAL]
    /\ prev' = RelayPrev
    /\ quiet' = TRUE
    /\ lastDelivered' = 0
    /\ UNCHANGED <<tio, disp, resume, guard, faults, pc, loc, intr>>
    /\ pre' = KeptPre
    /\ UNCHANGED prepared
    /\ UNCHANGED pureVars

get_signal_swaps ==
    /\ pc = "idle"
    /\ LAST_SIGNAL' = Sentinel
    /\ ret' = [op |-> "get", val |-> get_last_signal, slot |-> LAST_SIGNAL]
    /\ prev' = RelayPrev
    /\ quiet' = TRUE
    /\ UNCHANGED <<tio, disp, resume, guard, faults, pc, loc, intr>>
    /\ pre' = KeptPre
    /\ lastDelivered' = 0
    /\ UNCHANGED prepared
    /\ UNCHANGED pureVars

\* get_signal -> get_last_signal: conv_signal(get_raw_signal())
get_signal ==
    /\ pc = "idle"
    /\ ret' = [op |-> "get", val |-> get_last_signal, slot |-> LAST_SIGNAL]
    /\ prev' = RelayPrev
    /\ quiet' = TRUE
    /\ UNCHANGED <<tio, disp, LAST_SIGNAL, resume, guard, faults, pc, loc, intr>>
    /\ pre' = KeptPre
    /\ lastDelivered' = Recorded
    /\ UNCHANGED prepared
    /\ UNCHANGED pureVars

-----------------------------------------------------------------------------
(* prepare(catch_signals, report_signals) *)

InstallOrder_always_quit(report) ==
    <<SIGCONT, SIGINT>>
    \o (IF "Suspend" \in report THEN <<SIGTSTP>> ELSE <<>>)
    \o <<SIGQUIT>>

\* the sigaction calls of prepare(), in program order
InstallOrder(report) ==
    <<SIGCONT, SIGINT>>
    \o (IF "Suspend" \in report THEN <<SIGTSTP>> ELSE <<>>)
    \o (IF "Quit" \in report THEN <<SIGQUIT>> ELSE <<>>)

\* the caller enters prepare(); it holds no other guard
prepare ==
    /\ pc = "idle"
    /\ ~guard.live
    /\ \E c \in BOOLEAN, r \in Reports :
           loc' = [NoLoc EXCEPT !.ctx = "caller", !.catch = c, !.report = r,
                                !.entry = Entry(tio, disp, resume, LAST_SIGNAL)]
    /\ pc' = "prepare_tio"
    /\ pre' = [set |-> TRUE, tio |-> tio, disp |-> disp, hs |-> {}]
    /\ ret' = NoRet
    /\ prev' = NoPrev
    /\ UNCHANGED <<tio, disp, LAST_SIGNAL, resume, guard, faults, intr>>
    /\ quiet' = TRUE
    /\ lastDelivered' = Recorded
    /\ UNCHANGED prepared
    /\ UNCHANGED pureVars

\* tcgetattr, the flag changes, tcsetattr, TerminalGuard::new(old_tio)
prepare_tcsetattr ==
    /\ pc = "prepare_tio"
    /\ \E outcome \in {"ok", "tcgetattr fails", "tcsetattr fails"} :
           IF outcome = "ok"
           THEN /\ tio' = prepare_tio(tio)
                /\ loc' = [loc EXCEPT !.g = TerminalGuard_new(tio)]
                /\ pc' = IF loc.catch THEN "prepare_store" ELSE "prepare_done"
                /\ UNCHANGED faults
           ELSE /\ faults < MaxFaults
                /\ faults' = faults + 1
                /\ pc' = "prepare_err"
                /\ loc' = [loc EXCEPT !.failed = outcome]
                /\ UNCHANGED tio
    /\ UNCHANGED <<disp, LAST_SIGNAL, resume, guard, intr, ret, prev, quiet,
                   lastDelivered, pre>>
    /\ UNCHANGED prepared
    /\ UNCHANGED pureVars

prepare_store_keeps_slot ==
    /\ pc = "prepare_store"
    /\ lastDelivered' = IF loc.ctx = "caller" THEN 0 ELSE lastDelivered
    /\ loc' = [loc EXCEPT !.i = 1]
    /\ pc' = "prepare_sigaction"
    /\ UNCHANGED <<tio, disp, LAST_SIGNAL, resume, guard, faults, intr, ret, prev,
                   quiet, pre>>
    /\ UNCHANGED prepared
    /\ UNCHANGED pureVars

\* LAST_SIGNAL.store(!0). In a prepare() of the caller this clears the relay;
\* inside resume() the record is meant to survive it.
prepare_store ==
    /\ pc = "prepare_store"
    /\ LAST_SIGNAL' = Sentinel
    /\ lastDelivered' = IF loc.ctx = "caller" THEN 0 ELSE lastDelivered
    /\ loc' = [loc EXCEPT !.i = 1]
    /\ pc' = "prepare_sigaction"
    /\ UNCHANGED <<tio, disp, resume, guard, faults, intr, ret, prev, quiet, pre>>
    /\ UNCHANGED prepared
    /\ UNCHANGED pureVars

prepare_sigaction_forgets_guard ==
    /\ pc = "prepare_sigaction"
    /\ LET order == InstallOrder(loc.report)
           s == order[loc.i]
       IN \/ /\ disp' = [disp EXCEPT ![s] = "signal_handler"]
             /\ loc' = [loc EXCEPT !.g.old[s] = disp[s], !.i = loc.i + 1]
             /\ pc' = IF loc.i = Len(order) THEN "prepare_done" ELSE "prepare_sigaction"
             /\ UNCHANGED <<tio, faults>>
          \/ /\ faults < MaxFaults
             /\ faults' = faults + 1
             /\ loc' = [loc EXCEPT !.g = NoGuard, !.failed = "sigaction fails",
                                   !.released = "ok"]
             /\ pc' = "prepare_err"
             /\ UNCHANGED <<tio, disp>>
    /\ UNCHANGED <<LAST_SIGNAL, resume, guard, intr, ret, prev, quiet,
                   lastDelivered, pre>>
    /\ UNCHANGED prepared
    /\ UNCHANGED pureVars

\* one sigaction(sig, &action)?: on failure the guard built so far is dropped
prepare_sigaction ==
    /\ pc = "prepare_sigaction"
    /\ LET order == InstallOrder(loc.report)
           s == order[loc.i]
       IN \/ /\ disp' = [disp EXCEPT ![s] = "signal_handler"]
             /\ loc' = [loc EXCEPT !.g.old[s] = disp[s], !.i = loc.i + 1]
             /\ pc' = IF loc.i = Len(order) THEN "prepare_done" ELSE "prepare_sigaction"
             /\ UNCHANGED <<tio, faults>>
          \/ /\ faults < MaxFaults
             /\ \E fails \in RestoreFails(loc.g, MaxFaults - faults - 1) :
                   LET r == restore(loc.g, fails, tio, disp)
                   IN /\ tio' = r.tio
                      /\ disp' = r.disp
                      /\ faults' = faults + 1 + NFails(fails)
                      /\ loc' = [loc EXCEPT !.g = NoGuard,
                                            !.failed = "sigaction fails",
                                            !.released = IF r.ok THEN "ok"
                                                         ELSE "failed"]
                      /\ pc' = "prepare_err"
    /\ UNCHANGED <<LAST_SIGNAL, resume, guard, intr, ret, prev, quiet,
                   lastDelivered, pre>>
    /\ UNCHANGED prepared
    /\ UNCHANGED pureVars

\* self.resume.set(Some((catch_signals, report_signals))); Ok(guard)
prepare_ok ==
    /\ pc = "prepare_done"
    /\ resume' = Some(loc.catch, loc.report)
    /\ IF loc.ctx = "caller"
       THEN /\ guard' = loc.g
            /\ ret' = [op |-> "prepare", ok |-> TRUE]
            /\ prev' = NoPrev
            /\ loc' = NoLoc
            /\ pc' = "idle"
       ELSE /\ pc' = "resume_ok"
            /\ UNCHANGED <<guard, ret, prev, loc>>
    /\ prepared' = IF loc.ctx = "caller" THEN Some(loc.catch, loc.report) ELSE prepared
    /\ UNCHANGED <<tio, disp, LAST_SIGNAL, faults, intr, quiet, lastDelivered, pre>>
    /\ UNCHANGED pureVars

\* a `?` of prepare() returned the error
prepare_err ==
    /\ pc = "prepare_err"
    /\ IF loc.ctx = "caller"
       THEN /\ ret' = [op |-> "prepare", ok |-> FALSE]
            /\ prev' = NoPrev
            /\ pre' = NoPre
            /\ loc' = NoLoc
            /\ pc' = "idle"
       ELSE /\ pc' = "resume_err"
            /\ UNCHANGED <<ret, prev, pre, loc>>
    /\ UNCHANGED <<tio, disp, LAST_SIGNAL, resume, guard, faults, intr, quiet,
                   lastDelivered>>
    /\ UNCHANGED prepared
    /\ UNCHANGED pureVars

-----------------------------------------------------------------------------
(* read_signals() and the release of the caller's guard *)

read_signals ==
    /\ pc = "idle"
    /\ ~guard.live
    /\ \E outcome \in {"ok", "tcgetattr fails", "tcsetattr fails"} :
           IF outcome = "ok"
           THEN /\ tio' = read_signals_tio(tio)
                /\ guard' = TerminalGuard_new(tio)
                /\ ret' = [op |-> "read_signals", ok |-> TRUE,
                           entry |-> Entry(tio, disp, resume, LAST_SIGNAL)]
                /\ pre' = [NoPre EXCEPT !.tio = tio, !.disp = disp]
                /\ UNCHANGED faults
           ELSE /\ faults < MaxFaults
                /\ faults' = faults + 1
                /\ ret' = [op |-> "read_signals", ok |-> FALSE,
                           entry |-> Entry(tio, disp, resume, LAST_SIGNAL)]
                /\ pre' = NoPre
                /\ UNCHANGED <<tio, guard>>
    /\ prev' = NoPrev
    /\ UNCHANGED <<disp, LAST_SIGNAL, resume, pc, loc, intr>>
    /\ quiet' = TRUE
    /\ lastDelivered' = Recorded
    /\ UNCHANGED prepared
    /\ UNCHANGED pureVars

\* impl Drop for TerminalGuard: restore(), its error written to stderr
drop_guard ==
    /\ pc = "idle"
    /\ guard.live
    /\ \E fails \in RestoreFails(guard, MaxFaults - faults) :
           LET r == restore(guard, fails, tio, disp)
           IN /\ tio' = r.tio
              /\ disp' = r.disp
              /\ faults' = faults + NFails(fails)
              /\ ret' = [op |-> "release", ok |-> r.ok, tio_failed |-> fails.tio,
                         attempted |-> r.attempted,
                         saved |-> {s \in Sigs : guard.old[s] # "None"}]
    /\ guard' = NoGuard
    /\ prev' = NoPrev
    /\ UNCHANGED <<LAST_SIGNAL, resume, pc, loc, intr, pre>>
    /\ quiet' = TRUE
    /\ lastDelivered' = Recorded
    /\ UNCHANGED prepared
    /\ UNCHANGED pureVars

-----------------------------------------------------------------------------
(* wait_for_input(timeout) and the resume handshake *)

STDIN_FILENO == 0

\* r_fds.insert(STDIN_FILENO), twice
r_fds == {STDIN_FILENO}

e_fds_with_stdin == {STDIN_FILENO}

\* e_fds = FdSet::new(): nothing is ever inserted into it
e_fds == {}

\* select(): the number of descriptors left in the sets
select(readable, exceptional) ==
    Cardinality(r_fds \cap readable) + Cardinality(e_fds \cap exceptional)

\* the result of a wait_for_input() call that returns from locals l
WaitRet(val, err, hs, ready, l) ==
    [op |-> "wait", val |-> val, err |-> err, handshake |-> hs, ready |-> ready,
     sysres |-> l.sys, seen |-> l.seen, timeout |-> l.timeout]

wait_for_input ==
    /\ pc = "idle"
    /\ \E t \in {"None", "Some"} :
          \E d \in IF t = "None" THEN {0} ELSE 0 .. MaxTimeout :
              loc' = [NoLoc EXCEPT !.timeout = t, !.timeval = d, !.left = d]
    /\ pc' = "select"
    /\ ret' = NoRet
    /\ prev' = NoPrev
    /\ UNCHANGED <<tio, disp, LAST_SIGNAL, resume, guard, faults, intr>>
    /\ pre' = KeptPre
    /\ quiet' = TRUE
    /\ lastDelivered' = Recorded
    /\ UNCHANGED prepared
    /\ UNCHANGED pureVars

\* select(.., timeout.as_mut()): whether the kernel writes the time not slept
\* back into the timeval (Linux does, other Unix systems leave it as it was)
TimevalAfterSelect == BOOLEAN

\* one select() call of the loop, and the arms that return from it
wait_select ==
    /\ pc = "select"
    /\ intr' = FALSE
    /\ IF intr
       THEN /\ \E slept \in 0 .. loc.timeval, updated \in TimevalAfterSelect :
                  loc' = [loc EXCEPT !.sys = "EINTR",
                                     !.timeval = IF updated THEN loc.timeval - slept
                                                 ELSE loc.timeval,
                                     !.left = IF loc.left > slept THEN loc.left - slept
                                              ELSE 0]
            /\ pc' = "consult"
            /\ UNCHANGED <<ret, prev>>
       ELSE /\ \/ \E readable, exceptional \in SUBSET {STDIN_FILENO} :
                     LET n == select(readable, exceptional)
                     IN /\ n > 0 \/ loc.timeout # "None"
                        /\ ret' = WaitRet(n = 1, "None", "none",
                                          STDIN_FILENO \in readable,
                                          [loc EXCEPT !.sys = "ok"])
                \/ \E e \in {"EBADF", "EINVAL"} :
                     ret' = WaitRet(FALSE, e, "none", FALSE, [loc EXCEPT !.sys = e])
            /\ prev' = NoPrev
            /\ loc' = NoLoc
            /\ pc' = "idle"
    /\ UNCHANGED <<tio, disp, LAST_SIGNAL, resume, guard, faults, quiet,
                   lastDelivered, pre>>
    /\ UNCHANGED prepared
    /\ UNCHANGED pureVars

\* the EINTR arm: match get_last_signal()
wait_consult ==
    /\ pc = "consult"
    /\ quiet' = TRUE
    /\ LET k == get_last_signal
           l == [loc EXCEPT !.seen = k]
       IN IF k = "Continue"
          THEN /\ pc' = "resume"
               /\ loc' = [l EXCEPT !.timeval = 0, !.left = 0]
               /\ UNCHANGED <<ret, prev>>
          ELSE IF k # "None"
          THEN /\ ret' = WaitRet(TRUE, "None", "none", FALSE, l)
               /\ prev' = NoPrev
               /\ loc' = NoLoc
               /\ pc' = "idle"
          ELSE /\ pc' = "select"
               /\ loc' = l
               /\ UNCHANGED <<ret, prev>>
    /\ UNCHANGED <<tio, disp, LAST_SIGNAL, resume, guard, faults, intr, lastDelivered,
                   pre>>
    /\ UNCHANGED prepared
    /\ UNCHANGED pureVars

\* resume(): self.resume.take(), sig = get_raw_signal(), then prepare()
resume_take ==
    /\ pc = "resume"
    /\ IF resume.some
       THEN /\ resume' = NoResume
            /\ loc' = [loc EXCEPT !.ctx = "resume", !.catch = resume.catch,
                                  !.report = resume.report, !.sig = get_raw_signal,
                                  !.entry = Entry(tio, disp, NoResume, LAST_SIGNAL)]
            /\ pc' = "prepare_tio"
            /\ UNCHANGED <<ret, prev>>
       ELSE /\ ret' = WaitRet(TRUE, "None", "no state", FALSE, loc)
            /\ prev' = NoPrev
            /\ loc' = NoLoc
            /\ pc' = "idle"
            /\ UNCHANGED resume
    /\ UNCHANGED <<tio, disp, LAST_SIGNAL, guard, faults, intr, quiet, lastDelivered,
                   pre>>
    /\ UNCHANGED prepared
    /\ UNCHANGED pureVars

\* a handshake that ran while the caller held a prepare() guard is noted
Noted(outcome) == IF guard.live /\ pre.set THEN [pre EXCEPT !.hs = @ \cup {outcome}]
                  ELSE pre

resume_ok_keeps_guard ==
    /\ pc = "resume_ok"
    /\ set_raw_signal(loc.sig)
    /\ resume' = Some(loc.catch, loc.report)
    /\ ret' = WaitRet(TRUE, "None", "ok", FALSE, loc)
    /\ prev' = NoPrev
    /\ guard' = IF guard.live THEN loc.g ELSE guard
    /\ loc' = NoLoc
    /\ pc' = "idle"
    /\ pre' = Noted("ok")
    /\ UNCHANGED <<tio, disp, faults, intr, quiet, lastDelivered>>
    /\ UNCHANGED prepared
    /\ UNCHANGED pureVars

\* resume(), prepare() returned Ok(guard): set_raw_signal(sig); forget(guard)
\* (the guard is never dropped, so nothing of it is kept);
\* self.resume.set(..); then wait_for_input returns Ok(true)
resume_ok ==
    /\ pc = "resume_ok"
    /\ set_raw_signal(loc.sig)
    /\ resume' = Some(loc.catch, loc.report)
    /\ ret' = WaitRet(TRUE, "None", "ok", FALSE, loc)
    /\ prev' = NoPrev
    /\ loc' = NoLoc
    /\ pc' = "idle"
    /\ pre' = Noted("ok")
    /\ UNCHANGED <<tio, disp, guard, faults, intr, quiet, lastDelivered>>
    /\ UNCHANGED prepared
    /\ UNCHANGED pureVars

resume_err_loses_state ==
    /\ pc = "resume_err"
    /\ ret' = WaitRet(TRUE, "None", "err", FALSE, loc)
    /\ prev' = NoPrev
    /\ loc' = NoLoc
    /\ pc' = "idle"
    /\ pre' = Noted("err")
    /\ UNCHANGED <<tio, disp, LAST_SIGNAL, resume, guard, faults, intr, quiet,
                   lastDelivered>>
    /\ UNCHANGED prepared
    /\ UNCHANGED pureVars

\* resume(), prepare() returned Err: only self.resume.set(..)
resume_err ==
    /\ pc = "resume_err"
    /\ resume' = Some(loc.catch, loc.report)
    /\ ret' = WaitRet(TRUE, "None", "err", FALSE, loc)
    /\ prev' = NoPrev
    /\ loc' = NoLoc
    /\ pc' = "idle"
    /\ pre' = Noted("err")
    /\ UNCHANGED <<tio, disp, LAST_SIGNAL, guard, faults, intr, quiet, lastDelivered>>
    /\ UNCHANGED prepared
    /\ UNCHANGED pureVars

-----------------------------------------------------------------------------
(* read(buf): read_stdin under retry *)

retry_returns_interrupted(res) == "return"

\* retry(f): loop while the error kind is Interrupted, return anything else
retry(res) == IF res = "EINTR" THEN "again" ELSE "return"

read ==
    /\ pc = "idle"
    /\ loc' = NoLoc
    /\ pc' = "read"
    /\ ret' = NoRet
    /\ prev' = NoPrev
    /\ UNCHANGED <<tio, disp, LAST_SIGNAL, resume, guard, faults, intr>>
    /\ pre' = KeptPre
    /\ quiet' = TRUE
    /\ lastDelivered' = Recorded
    /\ UNCHANGED prepared
    /\ UNCHANGED pureVars

\* one read(STDIN_FILENO, ..) call of the retry loop
read_stdin ==
    /\ pc = "read"
    /\ intr' = FALSE
    /\ \E n \in 0 .. MaxRead, e \in {"None", "EIO", "EBADF"} :
          LET res == IF intr THEN "EINTR" ELSE e
          IN /\ intr => (n = 0 /\ e = "None")
             /\ e # "None" => n = 0
             /\ IF retry(res) = "again"
                THEN /\ loc' = [loc EXCEPT !.sys = res]
                     /\ UNCHANGED <<pc, ret, prev>>
                ELSE /\ ret' = [op |-> "read", n |-> n, err |-> res,
                                sysres |-> IF res = "None" THEN "ok" ELSE res]
                     /\ prev' = NoPrev
                     /\ loc' = NoLoc
                     /\ pc' = "idle"
    /\ UNCHANGED <<tio, disp, LAST_SIGNAL, resume, guard, faults, quiet, lastDelivered,
                   pre>>
    /\ UNCHANGED prepared
    /\ UNCHANGED pureVars

-----------------------------------------------------------------------------

Next ==
    \/ signal_handler
    \/ other_signal
    \/ take_signal
    \/ get_signal
    \/ prepare
    \/ prepare_tcsetattr
    \/ prepare_store
    \/ prepare_sigaction
    \/ prepare_ok
    \/ prepare_err
    \/ read_signals
    \/ drop_guard
    \/ wait_for_input
    \/ wait_select
    \/ wait_consult
    \/ resume_take
    \/ resume_ok
    \/ resume_err
    \/ read
    \/ read_stdin

Spec == Init /\ [][Next]_vars

\* the steps the main thread takes by itself: everything it does between the
\* entry of a call and its return, except leaving a select() that nothing
\* interrupted (that needs input, a timeout or an error, which are the
\* environment's to give)
MainThread ==
    \/ prepare_tcsetattr
    \/ prepare_store
    \/ prepare_sigaction
    \/ prepare_ok
    \/ prepare_err
    \/ (wait_select /\ intr)
    \/ wait_consult
    \/ resume_take
    \/ resume_ok
    \/ resume_err

\* the main thread keeps running while it has a step to take
SpecLive == Spec /\ WF_vars(MainThread)

-----------------------------------------------------------------------------
(* Cursor movement: move_up, move_down, move_left, move_right *)

\* capability strings fetched in new(), named by their terminfo names
cursor_up == "cuu1"
cursor_up_n == "cuu"
cursor_down_n == "cud"
cursor_left == "cub1"
cursor_left_n == "cub"
cursor_right == "cuf1"
cursor_right_n == "cuf"

\* a usize as four 16-bit limbs, most significant first
USize(k) == <<0, 0, 0, k>>

\* the arguments tried: 0 .. MaxN, 2^31 and 2^32 + 1
MoveArgs == {USize(k) : k \in 0 .. MaxN} \cup {<<0, 0, 32768, 0>>, <<0, 1, 0, 1>>}

\* `n as i32`: the low 32 bits of n, read as a signed number
as_i32(n) == IF n[3] < 32768 THEN n[3] * 65536 + n[4]
             ELSE (n[3] - 65536) * 65536 + n[4]

\* a capability string written as it is
Verbatim(cap) == [cap |-> cap, expanded |-> FALSE, param |-> 0]

\* term_param(cap, p): the expansion of a parameterized capability with p
term_param(cap, p) == [cap |-> cap, expanded |-> TRUE, param |-> p]

\* the end of a cursor operation: what it wrote, the term_param calls it made
Finish(op, n, res, emitted, expanded) ==
    /\ out' = out \o emitted
    /\ last' = [op |-> op, n |-> n, res |-> res, emitted |-> emitted,
                expanded |-> expanded, before |-> out]
    /\ UNCHANGED termVars
    /\ UNCHANGED tv

\* put(s)
put(op, n, chunk, expanded) ==
    \E written \in BOOLEAN :
        IF written THEN Finish(op, n, "Ok", <<chunk>>, expanded)
        ELSE Finish(op, n, "Err", <<>>, expanded)

\* let s = term_param(cap, n as i32)?; put(&s)
put_param(op, n, cap) ==
    \E found \in BOOLEAN :
        IF found THEN put(op, n, term_param(cap, as_i32(n)), <<term_param(cap, as_i32(n))>>)
        ELSE Finish(op, n, "Err", <<>>, <<term_param(cap, as_i32(n))>>)

move_up ==
    \E n \in MoveArgs :
        /\ Len(out) < MaxOut
        /\ IF n = USize(0) THEN Finish("move_up", n, "Ok", <<>>, <<>>)
           ELSE IF n = USize(1) THEN put("move_up", n, Verbatim(cursor_up), <<>>)
           ELSE put_param("move_up", n, cursor_up_n)

move_down_without_zero_check ==
    \E n \in MoveArgs :
        /\ Len(out) < MaxOut
        /\ put_param("move_down", n, cursor_down_n)

move_down ==
    \E n \in MoveArgs :
        /\ Len(out) < MaxOut
        /\ IF n = USize(0) THEN Finish("move_down", n, "Ok", <<>>, <<>>)
           ELSE put_param("move_down", n, cursor_down_n)

move_left ==
    \E n \in MoveArgs :
        /\ Len(out) < MaxOut
        /\ IF n = USize(0) THEN Finish("move_left", n, "Ok", <<>>, <<>>)
           ELSE IF n = USize(1) THEN put("move_left", n, Verbatim(cursor_left), <<>>)
           ELSE put_param("move_left", n, cursor_left_n)

move_right ==
    \E n \in MoveArgs :
        /\ Len(out) < MaxOut
        /\ IF n = USize(0) THEN Finish("move_right", n, "Ok", <<>>, <<>>)
           ELSE IF n = USize(1) THEN put("move_right", n, Verbatim(cursor_right), <<>>)
           ELSE put_param("move_right", n, cursor_right_n)

CursorNext ==
    \/ move_up
    \/ move_down
    \/ move_left
    \/ move_right

SpecCursor == Init /\ [][CursorNext]_vars

-----------------------------------------------------------------------------
(* to_timeval(d): the timeout handed to select *)

MaxSecs == 3

\* a u64 as four 16-bit limbs, most significant first
U64(k) == <<0, 0, 0, k>>

\* the widths of time_t and suseconds_t on the targets of the libc crate
Widths == {32, 64}

\* d.as_secs(): 0 .. MaxSecs, 2^31 - 1, 2^31, 2^32, 2^63 - 1, 2^63, 2^64 - 1
DurationSecs ==
    {U64(k) : k \in 0 .. MaxSecs} \cup
    {<<0, 0, 32767, 65535>>, <<0, 0, 32768, 0>>, <<0, 1, 0, 0>>,
     <<32767, 65535, 65535, 65535>>, <<32768, 0, 0, 0>>,
     <<65535, 65535, 65535, 65535>>}

\* d.subsec_nanos(): always below 1 000 000 000
DurationNanos == {0, 1, 999, 1000, 1001, 999999, 1000000, 999999999}

\* a > b on u64
Gt64(a, b) ==
    \E i \in 1 .. 4 : a[i] > b[i] /\ \A j \in 1 .. (i - 1) : a[j] = b[j]

\* time_t::max_value() as u64
time_t_max(w) == IF w = 64 THEN <<32767, 65535, 65535, 65535>>
                 ELSE <<0, 0, 32767, 65535>>

\* `n as time_t`: the low w bits of n, read as a signed number (its sign and
\* its bit pattern)
as_time_t(n, w) ==
    IF w = 64 THEN [neg |-> n[1] >= 32768, bits |-> n]
    ELSE [neg |-> n[3] >= 32768, bits |-> <<0, 0, n[3], n[4]>>]

\* `nano as suseconds_t`: a u32 read as a signed number of w bits
as_suseconds_t(nano, w) ==
    IF w = 64 \/ nano \div 65536 < 32768 THEN nano
    ELSE (nano \div 65536 - 65536) * 65536 + (nano % 65536)

to_timeval_without_clamp(secs, nano, w) ==
    [tv_sec |-> as_time_t(secs, w),
     tv_usec |-> as_suseconds_t(nano, w) \div 1000]

to_timeval(secs, nano, w) ==
    [tv_sec |-> IF Gt64(secs, time_t_max(w))
                THEN [neg |-> FALSE, bits |-> time_t_max(w)]
                ELSE as_time_t(secs, w),
     tv_usec |-> as_suseconds_t(nano, w) \div 1000]

\* timeout.map(to_timeval)
convert_timeout ==
    /\ \E secs \in DurationSecs, nano \in DurationNanos, w \in Widths :
          tv' = [called |-> TRUE, secs |-> secs, nano |-> nano, w |-> w,
                 res |-> to_timeval(secs, nano, w)]
    /\ UNCHANGED termVars
    /\ UNCHANGED cursorVars

TimevalNext == convert_timeout

SpecTimeval == Init /\ [][TimevalNext]_vars

-----------------------------------------------------------------------------
(* Properties *)

\* C1: after a prepare() of the caller followed by the release of the guard it
\* returned, with every syscall of the release succeeding, the terminal
\* attributes equal those read at the entry of prepare() and each of the four
\* dispositions is what it was at that entry.
C1_ReleaseRestoresSnapshot ==
    (ret.op = "release" /\ ret.ok /\ pre.set) =>
        (tio = pre.tio /\ \A s \in Sigs : disp[s] = pre.disp[s])

\* a released prepare(catch_signals = true) guard that had changed the
\* attributes and replaced three dispositions
C1_Witness ==
    /\ ret.op = "release" /\ ret.ok /\ pre.set
    /\ ret.saved = {SIGCONT, SIGINT, SIGQUIT}
    /\ pre.tio = Cooked

\* C2: when wait_for_input returns after an interrupted wait that found
\* Continue in the relay, and no signal was delivered after that, it returns
\* Ok(true) and the relay still holds Continue for the next take().
C2_HandshakeKeepsContinue ==
    (ret.op = "wait" /\ ret.seen = "Continue" /\ quiet) =>
        (ret.err = "None" /\ ret.val /\ LAST_SIGNAL = SIGCONT)

\* C3: a release attempts to restore every disposition the guard saved,
\* whatever failed before it (the attributes, or another disposition).
C3_EverySavedDispositionAttempted ==
    ret.op = "release" => ret.attempted = ret.saved

\* C4: every write to the relay slot leaves in it the sentinel or the raw
\* number of the most recently delivered signal: the main thread never puts
\* an older signal over a newer one.
C4_SlotHoldsMostRecent ==
    [][LAST_SIGNAL' # LAST_SIGNAL =>
          (LAST_SIGNAL' = Sentinel \/ LAST_SIGNAL' = lastDelivered')]_vars

\* C5: a take() returns the kind of the number that was in the slot (none for
\* the sentinel or an unmapped number) and leaves the sentinel; a take() right
\* after a take(), with no signal delivered between, returns none.
C5_TakeTwice ==
    /\ ret.op = "take" =>
          /\ LAST_SIGNAL = Sentinel
          /\ ret.slot = SIGCONT => ret.val = "Continue"
          /\ ret.slot = SIGINT => ret.val = "Interrupt"
          /\ ret.slot = SIGTSTP => ret.val = "Suspend"
          /\ ret.slot = SIGQUIT => ret.val = "Quit"
          /\ ret.slot \notin Sigs => ret.val = "None"
    /\ (ret.op = "take" /\ prev.op = "take") => ret.val = "None"

\* a second take() after one that returned a recorded signal
C5_Witness == ret.op = "take" /\ prev.op = "take" /\ prev.val = "Quit"

\* C6: get() leaves the slot as it was, and a get() or take() right after a
\* get(), with no signal delivered between, returns what that get() returned.
C6_GetIsNonDestructive ==
    /\ ret.op = "get" => LAST_SIGNAL = ret.slot
    /\ (ret.op \in {"get", "take"} /\ prev.op = "get") => ret.val = prev.val

\* a take() after a get() that saw a recorded signal
C6_Witness == ret.op = "take" /\ prev.op = "get" /\ prev.val = "Interrupt"

\* C7: wait_for_input returns Ok(false) only when a timeout was given, the
\* input descriptor was not ready and no interrupted wait of the call found a
\* recognized signal; when the descriptor is ready, or an interrupted wait
\* found a recognized signal, it returns Ok(true).
C7_FalseOnlyOnTimeout ==
    (ret.op = "wait" /\ ret.err = "None") =>
        /\ ~ret.val => (~ret.ready /\ ret.timeout # "None" /\ ret.seen \notin Kinds)
        /\ ret.ready => ret.val
        /\ ret.seen \in Kinds => ret.val

\* a wait that timed out
C7_Witness == ret.op = "wait" /\ ret.err = "None" /\ ~ret.val /\ ret.timeout = "Some"

\* C8: read() and wait_for_input() never return EINTR; read() returns the
\* first result that is not EINTR; wait_for_input() returns Ok(true) after an
\* interrupted wait (or waits again), and returns any other error as it is.
C8_InterruptedNeverSurfaces ==
    /\ ret.op = "read" =>
          /\ ret.err # "EINTR"
          /\ ret.sysres # "EINTR"
          /\ ret.err = (IF ret.sysres = "ok" THEN "None" ELSE ret.sysres)
    /\ ret.op = "wait" =>
          /\ ret.err # "EINTR"
          /\ ret.sysres = "EINTR" => (ret.err = "None" /\ ret.val)
          /\ ret.sysres \notin {"ok", "EINTR"} => ret.err = ret.sysres
    /\ pc = "consult" => loc.sys = "EINTR"
    /\ loc.sys \in {"None", "EINTR"}

\* read() is going round its retry loop after an interrupted read
C8_Witness == pc = "read" /\ loc.sys = "EINTR"

\* the value of a usize that fits an i32
Fits(n) == n[1] = 0 /\ n[2] = 0 /\ n[3] < 32768

Value(n) == n[3] * 65536 + n[4]

\* C9: a successful move_down(n), n >= 1, writes the expansion of the
\* parameterized cursor-down capability with n; a successful move_up,
\* move_left or move_right writes the single-step capability for n = 1 and
\* the expansion of the parameterized capability with n for n > 1.
C9_MoveEmits ==
    (last.op # "none" /\ last.res = "Ok" /\ last.n # USize(0)) =>
        LET single == CASE last.op = "move_up" -> cursor_up
                        [] last.op = "move_left" -> cursor_left
                        [] last.op = "move_right" -> cursor_right
                        [] OTHER -> "none"
            param  == CASE last.op = "move_up" -> cursor_up_n
                        [] last.op = "move_down" -> cursor_down_n
                        [] last.op = "move_left" -> cursor_left_n
                        [] last.op = "move_right" -> cursor_right_n
        IN IF last.op # "move_down" /\ last.n = USize(1)
           THEN last.emitted = <<[cap |-> single, expanded |-> FALSE, param |-> 0]>>
           ELSE /\ Fits(last.n)
                /\ last.emitted =
                      <<[cap |-> param, expanded |-> TRUE, param |-> Value(last.n)]>>

\* C10: with n = 0 each of the four operations returns Ok, writes nothing,
\* expands no capability and leaves the output as it was.
C10_ZeroIsNoOp ==
    (last.op # "none" /\ last.n = USize(0)) =>
        /\ last.res = "Ok"
        /\ last.emitted = <<>>
        /\ last.expanded = <<>>
        /\ out = last.before

\* move_down(0) after something had been written
C10_Witness == last.op = "move_down" /\ last.n = USize(0) /\ out # <<>>

\* C11: for every duration, tv_sec is the duration's whole seconds when they
\* do not exceed the maximum of time_t and is exactly that maximum otherwise,
\* never negative; tv_usec is the sub-second nanoseconds divided by 1000,
\* rounded down, and is below 1 000 000.
C11_TimevalClamps ==
    tv.called =>
        /\ ~tv.res.tv_sec.neg
        /\ IF Gt64(tv.secs, time_t_max(tv.w))
           THEN tv.res.tv_sec.bits = time_t_max(tv.w)
           ELSE tv.res.tv_sec.bits = tv.secs
        /\ tv.res.tv_usec * 1000 <= tv.nano
        /\ tv.nano - tv.res.tv_usec * 1000 < 1000
        /\ tv.res.tv_usec >= 0
        /\ tv.res.tv_usec < 1000000

\* a duration of 2^63 seconds and 999 999 999 nanoseconds, converted for a
\* 64-bit time_t
C11_Witness ==
    /\ tv.called
    /\ tv.secs = <<32768, 0, 0, 0>>
    /\ tv.nano = 999999999
    /\ tv.w = 64

\* wait_for_input has returned Ok(true), or the error of a failing select
WaitReturned == pc = "idle" /\ ret.op = "wait" /\ (ret.val \/ ret.err # "None")

\* C12: once a signal has reached the shared handler during a
\* wait_for_input(None), the call eventually returns, whether or not the
\* input descriptor ever becomes ready.
C12_SignalEndsWait ==
    (InWait /\ loc.timeout = "None" /\ loc.got) ~> WaitReturned

\* C13: a wait_for_input that performed the resume handshake (its inner
\* prepare() succeeded: raw mode written, handlers installed, the new guard
\* forgotten) ran while the caller held a guard returned by prepare(); with
\* no such guard held, no wait_for_input does so.
C13_HandshakeOnlyUnderGuard ==
    (ret.op = "wait" /\ ret.handshake = "ok") => (guard.live /\ pre.set)

\* C14: when resume handshakes ran between a prepare() of the caller and the
\* release of the guard it returned, a release whose syscalls all succeed
\* leaves the terminal attributes and the four dispositions as they were at
\* the entry of that prepare(): what the handshake's own guard saved is not
\* written back.
C14_ReleaseAfterHandshakes ==
    (ret.op = "release" /\ ret.ok /\ pre.set /\ pre.hs # {}) =>
        (tio = pre.tio /\ \A s \in Sigs : disp[s] = pre.disp[s])

\* a release after one handshake whose prepare() succeeded and one whose
\* prepare() failed, under a guard that had replaced three dispositions
C14_Witness ==
    /\ ret.op = "release" /\ ret.ok /\ pre.set
    /\ pre.hs = {"ok", "err"}
    /\ ret.saved = {SIGCONT, SIGINT, SIGTSTP}

\* C15: when a prepare() is about to return the error of a failing sigaction,
\* and the drop of its partial guard succeeded, the terminal attributes and
\* all four dispositions (those it had replaced and those it had not touched)
\* are what they were when it was entered, and so is ResumeState.
C15_FailedPrepareReleases ==
    (pc = "prepare_err" /\ loc.failed = "sigaction fails" /\ loc.released = "ok") =>
        /\ tio = loc.entry.tio
        /\ \A s \in Sigs : disp[s] = loc.entry.disp[s]
        /\ resume = loc.entry.resume

\* a prepare() of the caller that fails at its third sigaction, after an
\* earlier prepare() had set ResumeState
C15_Witness ==
    /\ pc = "prepare_err" /\ loc.ctx = "caller"
    /\ loc.failed = "sigaction fails" /\ loc.released = "ok"
    /\ loc.i = 3
    /\ loc.entry.resume.some
    /\ loc.entry.tio = Cooked

\* the signals the claim says prepare(c, r) handles
Handled(c, r) ==
    IF ~c THEN {}
    ELSE {s \in Sigs : \/ s \in {SIGCONT, SIGINT}
                       \/ s = SIGTSTP /\ "Suspend" \in r
                       \/ s = SIGQUIT /\ "Quit" \in r}

\* C16: when a prepare(catch_signals, report_signals) of the caller has
\* returned its guard, the disposition of each signal in the set (none without
\* catch_signals; else Continue, Interrupt, Suspend iff reported, Quit iff
\* reported) is the shared handler, every other disposition is what it was
\* before the call, and the guard holds a saved disposition for exactly the
\* signals of the set: the one the signal had before the call.
C16_HandlerSet ==
    (ret.op = "prepare" /\ ret.ok) =>
        \A s \in Sigs :
            IF s \in Handled(resume.catch, resume.report)
            THEN disp[s] = "signal_handler" /\ guard.old[s] = pre.disp[s]
            ELSE disp[s] = pre.disp[s] /\ guard.old[s] = "None"

\* prepare(true, {Suspend}) returned: Quit was ignored before and still is
C16_Witness ==
    /\ ret.op = "prepare" /\ ret.ok
    /\ resume.catch /\ resume.report = {"Suspend"}
    /\ disp[SIGTSTP] = "signal_handler"
    /\ disp[SIGQUIT] = "SIG_IGN"

\* a prepare() of the caller has passed its LAST_SIGNAL.store(!0)
PastStore ==
    /\ pc \in {"prepare_sigaction", "prepare_done", "prepare_err"}
    /\ loc.ctx = "caller"
    /\ loc.catch
    /\ loc.failed \notin {"tcgetattr fails", "tcsetattr fails"}

RelayClearedState ==
    /\ conv_signal(ATOMIC_USIZE_INIT) = "None"
    /\ (pc = "prepare_store" /\ loc.ctx = "caller") =>
           \A s \in Sigs : disp[s] = loc.entry.disp[s]
    /\ PastStore =>
           \/ LAST_SIGNAL = Sentinel
           \/ lastDelivered # 0 /\ LAST_SIGNAL = lastDelivered

\* the writes to the slot
RelayClearedStep ==
    /\ (LAST_SIGNAL = ATOMIC_USIZE_INIT /\ LAST_SIGNAL' # LAST_SIGNAL) =>
           LAST_SIGNAL' = Sentinel
    /\ (pc # "idle" /\ pc' # pc /\ loc.ctx = "caller" /\ ~loc.catch) =>
           LAST_SIGNAL' = LAST_SIGNAL
    /\ (pc = "idle" /\ ret'.op = "read_signals") =>
           LAST_SIGNAL' = LAST_SIGNAL

C18_InterruptedWait ==
    /\ (ret.op = "wait" /\ ret.seen \in {"Interrupt", "Suspend", "Quit"}) =>
           /\ ret.val /\ ret.err = "None"
           /\ ret.sysres = "EINTR"
           /\ ret.handshake = "none"
           /\ conv_signal(LAST_SIGNAL) = ret.seen
    /\ (ret.op = "wait" /\ ret.sysres = "EINTR") => ret.seen \in Kinds
    /\ (pc = "select" /\ loc.sys = "EINTR") =>
           /\ loc.seen = "None"
           /\ loc.timeval = loc.left

\* C19: outside the resume handshake ResumeState is None as long as no
\* prepare() of the caller has succeeded and is the pair of the most recent
\* one that has; the handshake re-prepares with that pair, and whatever its
\* prepare() returns, ResumeState is that pair again when wait_for_input
\* returns.
C19_ResumeState ==
    /\ loc.ctx # "resume" => resume = prepared
    /\ loc.ctx = "resume" => Some(loc.catch, loc.report) = prepared
    /\ (ret.op = "wait" /\ ret.handshake \in {"ok", "err"}) =>
           (resume.some /\ resume = prepared)

\* wait_for_input has returned from a handshake whose prepare() failed, run
\* under the guard of the caller's prepare(true, {Quit})
C19_Witness ==
    /\ ret.op = "wait" /\ ret.handshake = "err"
    /\ resume = Some(TRUE, {"Quit"})
    /\ guard.live /\ pre.set

\* C20: a read_signals() that returned its guard has cleared IXON and ISIG and
\* left every other attribute, every disposition, the relay slot and
\* ResumeState as they were; the guard holds the attributes read at entry and
\* no saved disposition, and its release, when tcsetattr succeeds, calls no
\* sigaction and leaves the attributes as they were before read_signals().
C20_ReadSignalsFrame ==
    /\ (ret.op = "read_signals" /\ ret.ok) =>
           /\ ~tio.IXON /\ ~tio.ISIG
           /\ tio.ICANON = ret.entry.tio.ICANON
           /\ tio.ECHO = ret.entry.tio.ECHO
           /\ tio.INLCR = ret.entry.tio.INLCR
           /\ tio.ICRNL = ret.entry.tio.ICRNL
           /\ tio.VMIN = ret.entry.tio.VMIN
           /\ tio.VTIME = ret.entry.tio.VTIME
           /\ \A s \in Sigs : disp[s] = ret.entry.disp[s]
           /\ LAST_SIGNAL = ret.entry.slot
           /\ resume = ret.entry.resume
           /\ guard.live
           /\ guard.old_tio = ret.entry.tio
           /\ \A s \in Sigs : guard.old[s] = "None"
    /\ (ret.op = "release" /\ ~pre.set) =>
           /\ ret.saved = {}
           /\ ret.attempted = {}
           /\ ret.ok => tio = pre.tio

\* read_signals() has returned its guard in cooked mode with SIGINT recorded
\* in the relay and ResumeState set
C20_Witness ==
    /\ ret.op = "read_signals" /\ ret.ok
    /\ ret.entry.tio = Cooked
    /\ ret.entry.slot = SIGINT
    /\ resume.some

====
